---- MODULE Spec2Model ----
(***************************************************************************)
(* Model of the boros transaction store (src/src/storage/sqlite.rs) and of *)
(* the wiring of its two users in main (src/src/main.rs).                  *)
(*                                                                         *)
(* The store is an SQLite database with two tables, tx and tx_dependence.  *)
(* create is a database transaction of several statements, so other calls  *)
(* interleave with it; next and update are one statement each.             *)
(***************************************************************************)
EXTENDS Integers, Sequences, FiniteSets, TLC

(* ------------------------------ bounds --------------------------------- *)
NumIds == 2          \* transaction ids are 1..NumIds
MaxBatch == 2        \* longest Vec<Transaction> passed to create
MaxDeps == 1         \* longest dependencies list of one transaction
MaxPriority == 2     \* priorities are 1..MaxPriority
MaxTime == 1         \* the clock and the timestamps are 0..MaxTime ticks
NumProcs == 2        \* concurrent callers of create
MaxCalls == 2        \* create and update calls made in one behaviour

Ids == 1..NumIds
RequiredIds == 0..NumIds    \* 0: an id no transaction carries
Priorities == 1..MaxPriority
Times == 0..MaxTime
Procs == 1..NumProcs
Raws == {"hex", "cbor"}

(* --------------------------- TransactionStatus ------------------------- *)
Status == {"Pending", "Validated", "Propagated", "Failed"}

\* TransactionStatus::to_string: the text kept in tx.status.
StatusToString(s) ==
    CASE s = "Pending" -> "pending"
      [] s = "Validated" -> "validated"
      [] s = "Propagated" -> "propagated"
      [] s = "Failed" -> "failed"

\* str::parse::<TransactionStatus>: the inverse, an error on any other text.
StatusParse(text) ==
    IF \E s \in Status : StatusToString(s) = text
    THEN CHOOSE s \in Status : StatusToString(s) = text
    ELSE "ParseError"

(* ------------------------- DateTime<Utc> as text ----------------------- *)
\* One tick of the model's clock is 500 microseconds. A DateTime<Utc> bound
\* to a statement is stored as RFC 3339 text whose fraction has 0, 3 or 6
\* digits, whichever is the shortest exact one; ORDER BY compares the text.
\* Only the part of the text that differs between the model's times is kept:
\* the two digits of the second, the fraction, and the '+' of "+00:00".
Digit(d) == 48 + d

Digits(n, width) ==
    [k \in 1..width |-> Digit((n \div (10 ^ (width - k))) % 10)]

EncodeTime(t) ==
    LET micros == (t % 2000) * 500
        secs == (t \div 2000) % 60
        frac == IF micros = 0 THEN <<>>
                ELSE IF micros % 1000 = 0 THEN <<46>> \o Digits(micros \div 1000, 3)
                ELSE <<46>> \o Digits(micros, 6)
    IN Digits(secs, 2) \o frac \o <<43>>

\* Decoding a column back into DateTime<Utc> (from_row).
DecodeTime(text) == CHOOSE t \in Times : EncodeTime(t) = text

\* memcmp order of two texts (SQLite's BINARY collation): a < b.
RECURSIVE TextLess(_, _)
TextLess(a, b) ==
    IF b = <<>> THEN FALSE
    ELSE IF a = <<>> THEN TRUE
    ELSE IF Head(a) # Head(b) THEN Head(a) < Head(b)
    ELSE TextLess(Tail(a), Tail(b))

(* ------------------------------- state --------------------------------- *)
VARIABLES
    tx,         \* committed rows of table tx, in the engine's scan order
    dep,        \* committed rows of table tx_dependence
    writer,     \* the caller whose database transaction holds the write lock, or 0
    wtx, wdep,  \* the tables as the open write transaction sees them
    pc,         \* pc[p]: where caller p is inside create
    txs,        \* txs[p]: ids of the transactions of the batch still to be
                \* written, the one being written first
    deps,       \* deps[p]: dependencies of that transaction still to be written
    ret,        \* what the call that ended in the last step returned
    now,        \* the last reading of Utc::now()
    calls,      \* create and update calls made so far
    serverStore, pipelineStore,  \* the store main handed to each task
    task,       \* task[t]: where the future of task t of main is
    exit,       \* what main returned, "none" while it runs
    held        \* the Option<Transaction> the polling worker got from next

vars == <<tx, dep, writer, wtx, wdep, pc, txs, deps, ret, now, calls,
          serverStore, pipelineStore, task, exit, held>>

storeVars == <<tx, dep, writer, wtx, wdep>>
createVars == <<pc, txs, deps>>
mainVars == <<serverStore, pipelineStore, task, exit, held>>

\* The two futures main joins.
Tasks == {"pipeline", "server"}

\* ret: op is the call; status its status argument (next: the status asked
\* for; update: the status of the transaction passed); n is, for update, the
\* id of the transaction passed and, for create, the number of rows of tx the
\* call had inserted when it returned; val is the Result; row is the
\* Option<Transaction> of next (<<>> is None).
Ret(op, n, status, val, row) ==
    [op |-> op, n |-> n, status |-> status, val |-> val, row |-> row]

NoRet == Ret("none", 0, "", "none", <<>>)

Init ==
    /\ tx = <<>>
    /\ dep = <<>>
    /\ writer = 0
    /\ wtx = <<>>
    /\ wdep = <<>>
    /\ pc = [p \in Procs |-> "idle"]
    /\ txs = [p \in Procs |-> <<>>]
    /\ deps = [p \in Procs |-> <<>>]
    /\ ret = NoRet
    /\ now = 0
    /\ calls = 0
    /\ serverStore = "none"
    /\ pipelineStore = "none"
    /\ task = [t \in Tasks |-> "none"]
    /\ exit = "none"
    /\ held = <<>>

(* ------------------------------ helpers -------------------------------- *)
Range(s) == {s[k] : k \in 1..Len(s)}

RowIds(rows) == {rows[k].id : k \in 1..Len(rows)}

\* The sequence s with e placed at position k (1..Len(s)+1).
InsertAt(s, k, e) == SubSeq(s, 1, k - 1) \o <<e>> \o SubSeq(s, k, Len(s))

SeqsUpTo(S, n) == UNION {[1..m -> S] : m \in 0..n}

\* tx_dependence is never read back in an order, so its rows are kept sorted:
\* the edge e placed after the rows that are not greater.
EdgeLeq(a, b) == a[1] < b[1] \/ (a[1] = b[1] /\ a[2] <= b[2])

AddEdge(edges, e) ==
    InsertAt(edges, 1 + Cardinality({k \in 1..Len(edges) : EdgeLeq(edges[k], e)}), e)

(* --------------------- schema of the two tables ------------------------ *)
\* tx.id is the primary key.
PrimaryKeyOk(rows, id) == id \notin RowIds(rows)

\* tx_dependence.dependent_id and .required_id reference tx.id; the check is
\* made when the statement runs.
ForeignKeyOk(rows, edge) == edge[1] \in RowIds(rows) /\ edge[2] \in RowIds(rows)

\* (dependent_id, required_id) is unique.
UniquePairOk(edges, edge) == edge \notin Range(edges)

(* ------------------------------- create -------------------------------- *)
\* The row INSERT INTO tx writes for one Transaction.
TxRow(id, raw, status, priority, created_at, updated_at) ==
    [id |-> id, raw |-> raw, status |-> StatusToString(status),
     priority |-> priority, created_at |-> EncodeTime(created_at),
     updated_at |-> EncodeTime(updated_at)]

\* Whether caller p may run a writing statement: no other open transaction
\* holds the database's write lock.
CanWrite(p) == writer \in {0, p}

\* self.sqlite.db.begin(): a database transaction of caller p is open. The
\* callers are interchangeable, so the lowest idle one takes the call.
Begin(p, ids) ==
    /\ pc[p] = "idle"
    /\ \A q \in Procs : q < p => pc[q] # "idle"
    /\ calls < MaxCalls
    /\ calls' = calls + 1
    /\ txs' = [txs EXCEPT ![p] = ids]
    /\ deps' = [deps EXCEPT ![p] = <<>>]
    /\ pc' = [pc EXCEPT ![p] = IF ids = <<>> THEN "commit" ELSE "insert_tx"]
    /\ ret' = NoRet
    /\ UNCHANGED <<storeVars, now, mainVars>>

\* The end of one iteration of `for tx in txs`: the next transaction, or the
\* commit after the last one.
AfterTx(p) ==
    /\ txs' = [txs EXCEPT ![p] = Tail(txs[p])]
    /\ pc' = [pc EXCEPT ![p] = IF Tail(txs[p]) # <<>> THEN "insert_tx" ELSE "commit"]

\* create returns: caller p is idle again.
Return(p, val) ==
    /\ ret' = Ret("create", IF writer = p THEN Len(wtx) - Len(tx) ELSE 0, "", val, <<>>)
    /\ pc' = [pc EXCEPT ![p] = "idle"]
    /\ txs' = [txs EXCEPT ![p] = <<>>]
    /\ deps' = [deps EXCEPT ![p] = <<>>]
    /\ UNCHANGED <<now, calls, mainVars>>

\* RollbackDropped with the statements run on the pool instead of db_tx: what
\* was written before the error stays.
RollbackDropped_OnPool(p, err) ==
    /\ tx' = IF writer = p THEN wtx ELSE tx
    /\ dep' = IF writer = p THEN wdep ELSE dep
    /\ writer' = IF writer = p THEN 0 ELSE writer
    /\ UNCHANGED <<wtx, wdep>>
    /\ Return(p, err)

\* A statement's `.await?` returned Err: create returns it, db_tx is dropped
\* and the database transaction is rolled back.
RollbackDropped(p, err) ==
    /\ wtx' = IF writer = p THEN tx ELSE wtx
    /\ wdep' = IF writer = p THEN dep ELSE wdep
    /\ writer' = IF writer = p THEN 0 ELSE writer
    /\ UNCHANGED <<tx, dep>>
    /\ Return(p, err)

\* INSERT INTO tx of the transaction at the head of txs[p]; its other fields
\* are read here, where the loop reaches it.
InsertTx(p, raw, status, priority, created_at, updated_at, dl) ==
    /\ pc[p] = "insert_tx"
    /\ CanWrite(p)
    /\ PrimaryKeyOk(wtx, Head(txs[p]))
    /\ \E k \in 1..(Len(wtx) + 1) :
          wtx' = InsertAt(wtx, k,
                          TxRow(Head(txs[p]), raw, status, priority,
                                created_at, updated_at))
    /\ writer' = p
    /\ deps' = [deps EXCEPT ![p] = dl]
    /\ IF dl = <<>> THEN AfterTx(p)
       ELSE /\ pc' = [pc EXCEPT ![p] = "insert_dep"]
            /\ UNCHANGED txs
    /\ ret' = NoRet
    /\ UNCHANGED <<tx, dep, wdep, now, calls, mainVars>>

\* InsertTxDuplicate with the error swallowed (INSERT OR IGNORE): the loop
\* goes on to the next transaction.
InsertTxDuplicate_Ignored(p) ==
    /\ pc[p] = "insert_tx"
    /\ CanWrite(p)
    /\ ~PrimaryKeyOk(wtx, Head(txs[p]))
    /\ AfterTx(p)
    /\ ret' = NoRet
    /\ UNCHANGED <<storeVars, deps, now, calls, mainVars>>

\* InsertTxDuplicate with INSERT OR REPLACE: the stored row of that id gives
\* way to the new one.
InsertTxDuplicate_Replace(p) ==
    /\ pc[p] = "insert_tx"
    /\ CanWrite(p)
    /\ ~PrimaryKeyOk(wtx, Head(txs[p]))
    /\ \E priority \in Priorities, created_at \in Times :
          wtx' = Append(SelectSeq(wtx, LAMBDA r : r.id # Head(txs[p])),
                        TxRow(Head(txs[p]), "hex", "Pending", priority,
                              created_at, created_at))
    /\ writer' = p
    /\ deps' = [deps EXCEPT ![p] = <<>>]
    /\ AfterTx(p)
    /\ ret' = NoRet
    /\ UNCHANGED <<tx, dep, wdep, now, calls, mainVars>>

\* The same statement when the id is already in the table.
InsertTxDuplicate(p) ==
    /\ pc[p] = "insert_tx"
    /\ CanWrite(p)
    /\ ~PrimaryKeyOk(wtx, Head(txs[p]))
    /\ RollbackDropped(p, "Err UNIQUE tx")

\* InsertDep with the edge checked but not written.
InsertDep_NotWritten(p) ==
    LET edge == <<Head(txs[p]), Head(deps[p])>> IN
    /\ pc[p] = "insert_dep"
    /\ ForeignKeyOk(wtx, edge)
    /\ UniquePairOk(wdep, edge)
    /\ deps' = [deps EXCEPT ![p] = Tail(deps[p])]
    /\ IF Tail(deps[p]) = <<>> THEN AfterTx(p)
       ELSE UNCHANGED <<pc, txs>>
    /\ ret' = NoRet
    /\ UNCHANGED <<storeVars, now, calls, mainVars>>

\* INSERT INTO tx_dependence of the next required id of the transaction.
InsertDep(p) ==
    LET edge == <<Head(txs[p]), Head(deps[p])>> IN
    /\ pc[p] = "insert_dep"
    /\ ForeignKeyOk(wtx, edge)
    /\ UniquePairOk(wdep, edge)
    /\ wdep' = AddEdge(wdep, edge)
    /\ deps' = [deps EXCEPT ![p] = Tail(deps[p])]
    /\ IF Tail(deps[p]) = <<>> THEN AfterTx(p)
       ELSE UNCHANGED <<pc, txs>>
    /\ ret' = NoRet
    /\ UNCHANGED <<tx, dep, writer, wtx, now, calls, mainVars>>

\* InsertDepRejected with the constraints of tx_dependence not enforced: the
\* edge is written like any other.
InsertDepRejected_Written(p) ==
    LET edge == <<Head(txs[p]), Head(deps[p])>> IN
    /\ pc[p] = "insert_dep"
    /\ ~(ForeignKeyOk(wtx, edge) /\ UniquePairOk(wdep, edge))
    /\ CanWrite(p)
    /\ writer' = p
    /\ wdep' = AddEdge(wdep, edge)
    /\ deps' = [deps EXCEPT ![p] = Tail(deps[p])]
    /\ IF Tail(deps[p]) = <<>> THEN AfterTx(p)
       ELSE UNCHANGED <<pc, txs>>
    /\ ret' = NoRet
    /\ UNCHANGED <<tx, dep, wtx, now, calls, mainVars>>

\* The same statement when the required id is not in tx, or the pair is
\* already in tx_dependence.
InsertDepRejected(p) ==
    LET edge == <<Head(txs[p]), Head(deps[p])>> IN
    /\ pc[p] = "insert_dep"
    /\ ~(ForeignKeyOk(wtx, edge) /\ UniquePairOk(wdep, edge))
    /\ RollbackDropped(p, IF ForeignKeyOk(wtx, edge)
                          THEN "Err UNIQUE tx_dependence"
                          ELSE "Err FOREIGN KEY")

\* Any `.await?` of create failing in the storage layer (the write lock is
\* held by another transaction for too long, I/O).
StorageError(p) ==
    /\ pc[p] # "idle"
    /\ RollbackDropped(p, "Err storage")

\* db_tx.commit(): the writes of the call become the committed tables.
Commit(p) ==
    /\ pc[p] = "commit"
    /\ tx' = IF writer = p THEN wtx ELSE tx
    /\ dep' = IF writer = p THEN wdep ELSE dep
    /\ writer' = IF writer = p THEN 0 ELSE writer
    /\ UNCHANGED <<wtx, wdep>>
    /\ Return(p, "Ok")

(* -------------------------------- next --------------------------------- *)
\* FromRow for Transaction: the columns decoded, dependencies: None.
FromRow(row) ==
    [id |-> row.id, raw |-> row.raw, status |-> StatusParse(row.status),
     priority |-> row.priority, dependencies |-> <<>>,
     created_at |-> DecodeTime(row.created_at),
     updated_at |-> DecodeTime(row.updated_at)]

\* OrderedBefore with ORDER BY priority alone.
OrderedBefore_PriorityOnly(a, b) == a.priority < b.priority

\* ORDER BY priority, created_at ASC: row a sorts strictly before row b.
OrderedBefore(a, b) ==
    \/ a.priority < b.priority
    \/ a.priority = b.priority /\ TextLess(a.created_at, b.created_at)

\* NextOf without the WHERE clause.
NextOf_NoWhere(rows, s) ==
    LET cand == 1..Len(rows)
        first == CHOOSE k \in cand :
                   \A m \in cand \ {k} :
                      \/ OrderedBefore(rows[k], rows[m])
                      \/ ~OrderedBefore(rows[m], rows[k]) /\ k < m
    IN IF cand = {} THEN <<>> ELSE <<FromRow(rows[first])>>

\* The SELECT of next on the table rows: WHERE tx.status = $1 ORDER BY
\* priority, created_at ASC LIMIT 1, fetch_optional. Rows the ORDER BY does
\* not tell apart come out in the engine's scan order.
NextOf(rows, s) ==
    LET cand == {k \in 1..Len(rows) : rows[k].status = StatusToString(s)}
        first == CHOOSE k \in cand :
                   \A m \in cand \ {k} :
                      \/ OrderedBefore(rows[k], rows[m])
                      \/ ~OrderedBefore(rows[m], rows[k]) /\ k < m
    IN IF cand = {} THEN <<>> ELSE <<FromRow(rows[first])>>

\* PoolReads with the rows an open transaction has written visible.
PoolReads_Uncommitted == wtx

\* The table tx as a statement run on the pool, outside any open write
\* transaction, reads it: the committed rows.
PoolReads == tx

\* Next_ as a select-and-mark: the row returned is moved to Validated.
Next__Marks(s) ==
    LET r == NextOf(PoolReads, s) IN
    /\ writer = 0
    /\ ret' = Ret("next", 0, s, "Ok", r)
    /\ tx' = [k \in 1..Len(tx) |->
                IF r # <<>> /\ tx[k].id = r[1].id
                THEN [tx[k] EXCEPT !.status = StatusToString("Validated")]
                ELSE tx[k]]
    /\ wtx' = tx'
    /\ UNCHANGED <<dep, wdep, writer, createVars, now, calls, mainVars>>

\* Next_ with the SELECT run on the connection of the open write
\* transaction instead of one taken from the pool.
Next__InTransaction(s) ==
    /\ ret' = Ret("next", 0, s, "Ok", NextOf(wtx, s))
    /\ UNCHANGED <<storeVars, createVars, now, calls, mainVars>>

\* next(status): one SELECT on the pool.
Next_(s) ==
    /\ ret' = Ret("next", 0, s, "Ok", NextOf(PoolReads, s))
    /\ UNCHANGED <<storeVars, createVars, now, calls, mainVars>>

(* ------------------------------- update -------------------------------- *)
\* UpdateRows without the WHERE clause.
UpdateRows_NoWhere(rows, id, raw, status, updated_at) ==
    [k \in 1..Len(rows) |->
        [rows[k] EXCEPT !.raw = raw,
                        !.status = StatusToString(status),
                        !.updated_at = EncodeTime(updated_at)]]

\* UpdateRows with the status column left out of the SET list.
UpdateRows_KeepsStatus(rows, id, raw, status, updated_at) ==
    [k \in 1..Len(rows) |->
        IF rows[k].id = id
        THEN [rows[k] EXCEPT !.raw = raw,
                             !.updated_at = EncodeTime(updated_at)]
        ELSE rows[k]]

\* UPDATE tx SET raw = $1, status = $2, updated_at = $3 WHERE id = $4.
UpdateRows(rows, id, raw, status, updated_at) ==
    [k \in 1..Len(rows) |->
        IF rows[k].id = id
        THEN [rows[k] EXCEPT !.raw = raw,
                             !.status = StatusToString(status),
                             !.updated_at = EncodeTime(updated_at)]
        ELSE rows[k]]

\* update(tx): Utc::now() reads t, no earlier than the clock's last reading;
\* the statement runs on its own once no open transaction holds the write
\* lock; its QueryResult is dropped and Ok(()) returned.
Update(id, raw, status, t) ==
    /\ writer = 0
    /\ calls < MaxCalls
    /\ calls' = calls + 1
    /\ t >= now
    /\ now' = t
    /\ tx' = UpdateRows(tx, id, raw, status, t)
    /\ wtx' = tx'
    /\ ret' = Ret("update", id, status, "Ok", <<>>)
    /\ UNCHANGED <<dep, wdep, writer, createVars, mainVars>>

(* ------------------------------- worker -------------------------------- *)
\* A single worker polling the store: it calls next(Pending) and, when that
\* returns a transaction, holds it until it calls update for it.
WorkerNext ==
    /\ held = <<>>
    /\ held' = NextOf(PoolReads, "Pending")
    /\ ret' = Ret("next", 0, "Pending", "Ok", held')
    /\ UNCHANGED <<storeVars, createVars, now, calls, serverStore,
                   pipelineStore, task, exit>>

\* The worker's update of the transaction it holds, with the status it moved
\* it to: the statement of update, run as in Update.
WorkerUpdate(status, t) ==
    /\ held # <<>>
    /\ status # "Pending"
    /\ writer = 0
    /\ t >= now
    /\ now' = t
    /\ tx' = UpdateRows(tx, held[1].id, held[1].raw, status, t)
    /\ wtx' = tx'
    /\ ret' = Ret("update", held[1].id, status, "Ok", <<>>)
    /\ held' = <<>>
    /\ UNCHANGED <<dep, wdep, writer, createVars, calls, serverStore,
                   pipelineStore, task, exit>>

(* -------------------------------- main --------------------------------- *)
\* main: tx_storage wraps the SQLite store; the server task is given
\* tx_storage, the pipeline task is given cbor_txs_db.
MainRun ==
    /\ serverStore = "none"
    /\ serverStore' = "tx_storage"
    /\ pipelineStore' = "cbor_txs_db"
    /\ task' = [t \in Tasks |-> "running"]
    /\ ret' = NoRet
    /\ UNCHANGED <<storeVars, createVars, now, calls, exit, held>>

\* The ids the pipeline task can read through the store it was given:
\* cbor_txs_db is a new in-memory db, which create does not write to.
PipelineReads == IF pipelineStore = "tx_storage" THEN RowIds(tx) ELSE {}

\* The error main returns when the future of task t is the one that failed.
ErrOf(t) == IF t = "pipeline" THEN "Err pipeline" ELSE "Err server"

\* PollTask with join! in place of try_join!: the result is looked at once
\* every future has completed.
PollTask_Join(t, result) ==
    /\ exit = "none"
    /\ task[t] = "running"
    /\ task' = [task EXCEPT ![t] = result]
    /\ exit' = IF \E u \in Tasks : task'[u] = "running" THEN "none"
               ELSE IF \E u \in Tasks : task'[u] = "Err"
                    THEN ErrOf(CHOOSE u \in Tasks : task'[u] = "Err")
                    ELSE "Ok"
    /\ ret' = NoRet
    /\ UNCHANGED <<storeVars, createVars, now, calls, serverStore,
                   pipelineStore, held>>

\* try_join!(pipeline, server)?: a poll in which the future of task t
\* completes with result. An Err ends the join, and `?` makes main return
\* it, at once; an Ok ends the join when the other future has completed too,
\* and main returns Ok(()).
PollTask(t, result) ==
    /\ exit = "none"
    /\ task[t] = "running"
    /\ task' = [task EXCEPT ![t] = result]
    /\ exit' = IF result = "Err" THEN ErrOf(t)
               ELSE IF \A u \in Tasks : task'[u] = "Ok" THEN "Ok"
               ELSE "none"
    /\ ret' = NoRet
    /\ UNCHANGED <<storeVars, createVars, now, calls, serverStore,
                   pipelineStore, held>>

\* The server task is running: it is the one that calls create.
ServerRuns == task["server"] = "running" /\ exit = "none"

(* ---------------------------- specification ---------------------------- *)
\* The transactions passed to create are the ones the callers build: raw
\* "hex", status Pending, updated_at = created_at.
Next ==
    \/ \E p \in Procs, ids \in SeqsUpTo(Ids, MaxBatch) : Begin(p, ids)
    \/ \E p \in Procs, priority \in Priorities, created_at \in Times,
          dl \in SeqsUpTo(RequiredIds, MaxDeps) :
          InsertTx(p, "hex", "Pending", priority, created_at, created_at, dl)
    \/ \E p \in Procs : InsertTxDuplicate(p)
    \/ \E p \in Procs : InsertDep(p)
    \/ \E p \in Procs : InsertDepRejected(p)
    \/ \E p \in Procs : StorageError(p)
    \/ \E p \in Procs : Commit(p)
    \/ \E s \in Status : Next_(s)
    \/ \E id \in Ids, raw \in Raws, s \in Status, t \in Times :
          Update(id, raw, s, t)
    \/ MainRun

Spec == Init /\ [][Next]_vars

\* A step of the create call of caller p, once begun. The transactions
\* created here carry no dependencies: next and update never read them.
CreateStep(p) ==
    \/ \E priority \in Priorities, created_at \in Times :
          InsertTx(p, "hex", "Pending", priority, created_at, created_at, <<>>)
    \/ InsertTxDuplicate(p)
    \/ StorageError(p)
    \/ Commit(p)

\* The worker's steps.
WorkerStep ==
    \/ WorkerNext
    \/ \E status \in Status, t \in Times : WorkerUpdate(status, t)

\* The store with the callers of create and a single polling worker, which
\* alone calls next and update.
NextDrain ==
    \/ \E p \in Procs, ids \in SeqsUpTo(Ids, MaxBatch) : Begin(p, ids)
    \/ \E p \in Procs : CreateStep(p)
    \/ WorkerStep

\* Every call of create that has begun goes on to return (each await of it
\* completes or fails), and the worker keeps polling.
SpecDrain ==
    /\ Init /\ [][NextDrain]_vars
    /\ \A p \in Procs : WF_vars(CreateStep(p))
    /\ WF_vars(WorkerStep)

\* main and its two tasks: the store is written by the create calls of the
\* server task for as long as that task runs.
NextMain ==
    \/ MainRun
    \/ \E t \in Tasks, result \in {"Ok", "Err"} : PollTask(t, result)
    \/ \E p \in Procs, ids \in SeqsUpTo(Ids, MaxBatch) : ServerRuns /\ Begin(p, ids)
    \/ \E p \in Procs, priority \in Priorities, created_at \in Times,
          dl \in SeqsUpTo(RequiredIds, MaxDeps) :
          /\ ServerRuns
          /\ InsertTx(p, "hex", "Pending", priority, created_at, created_at, dl)
    \/ \E p \in Procs : ServerRuns /\ InsertTxDuplicate(p)
    \/ \E p \in Procs : ServerRuns /\ InsertDep(p)
    \/ \E p \in Procs : ServerRuns /\ InsertDepRejected(p)
    \/ \E p \in Procs : ServerRuns /\ StorageError(p)
    \/ \E p \in Procs : ServerRuns /\ Commit(p)

SpecMain == Init /\ [][NextMain]_vars

(* ------------------------------ properties ----------------------------- *)
\* Caller p takes a step of create.
StepOf(p) == pc'[p] # pc[p] \/ txs'[p] # txs[p] \/ deps'[p] # deps[p]

\* The rows of tx whose id is id.
RowsOf(rows, id) == {k \in 1..Len(rows) : rows[k].id = id}

\* C1: when create reaches a dependency whose required id is not in the
\* store at that moment, the call returns an error and nothing it wrote is
\* kept: the committed tables are what they were when the call took the
\* write lock (they do not change while it holds it), rows written for the
\* earlier transactions of the batch included.
C1_AtomicOnMissingDependency ==
    [][ /\ (writer # 0 /\ writer' = writer) => (tx' = tx /\ dep' = dep)
        /\ \A p \in Procs :
              (pc[p] = "insert_dep" /\ Head(deps[p]) \notin RowIds(wtx) /\ StepOf(p))
              => /\ ret'.op = "create" /\ ret'.val # "Ok"
                 /\ pc'[p] = "idle"
                 /\ tx' = tx /\ dep' = dep
                 /\ wtx' = tx /\ wdep' = dep /\ writer' = 0 ]_vars

\* A create that had inserted two transactions failed on the dependency of
\* the second one, and the store is empty as before.
C1_Witness ==
    /\ ret.op = "create" /\ ret.val = "Err FOREIGN KEY" /\ ret.n = 2
    /\ tx = <<>> /\ dep = <<>> /\ wtx = <<>> /\ wdep = <<>>

\* C2: next(Pending) never returns a transaction that has a dependency edge
\* to another transaction that is itself still Pending (stated for edges to
\* another transaction; an edge of a transaction to itself is C13's).
C2_DependencyGating ==
    (ret.op = "next" /\ ret.status = "Pending" /\ ret.row # <<>>)
    => ~ \E e \in Range(dep) :
           /\ e[1] = ret.row[1].id
           /\ e[2] # e[1]
           /\ \E k \in RowsOf(tx, e[2]) : tx[k].status = StatusToString("Pending")

\* Transaction a comes strictly before transaction b in dispatch order:
\* smaller priority, or the same priority and an earlier created_at.
Precedes(a, b) ==
    \/ a.priority < b.priority
    \/ a.priority = b.priority /\ a.created_at < b.created_at

\* The transactions stored with status s.
WithStatus(rows, s) == {FromRow(rows[k]) : k \in {m \in 1..Len(rows) : FromRow(rows[m]).status = s}}

\* C3: the transaction next(s) returns has the smallest priority among the
\* stored transactions of status s and, among those of that priority, the
\* earliest created_at: no stored transaction of status s precedes it.
C3_SelectionOrder ==
    (ret.op = "next" /\ ret.row # <<>>)
    => \A t \in WithStatus(tx, ret.status) : ~Precedes(t, ret.row[1])

\* next returned the older of two transactions of the same status and
\* priority although the younger one comes first in the table.
C3_Witness ==
    /\ ret.op = "next" /\ ret.row # <<>>
    /\ Len(tx) = 2
    /\ FromRow(tx[2]) = ret.row[1]
    /\ FromRow(tx[1]).status = ret.status
    /\ tx[1].priority = tx[2].priority
    /\ FromRow(tx[1]).created_at > FromRow(tx[2]).created_at

\* C4: next(s) returns Some exactly when a transaction of status s is
\* stored, and what it returns is a stored transaction of status s; so a
\* transaction that update moved from s to another status is not returned by
\* next(s) any more, and next(s) is None when it was the only one.
C4_StatusFilter ==
    ret.op = "next"
    => /\ (ret.row # <<>>) <=> (WithStatus(tx, ret.status) # {})
       /\ ret.row # <<>> => /\ ret.row[1].status = ret.status
                            /\ ret.row[1] \in WithStatus(tx, ret.status)

\* The only transaction was moved from Pending to Validated by update, and
\* next(Pending) returned None.
C4_Witness ==
    /\ ret.op = "next" /\ ret.status = "Pending" /\ ret.row = <<>>
    /\ Len(tx) = 1
    /\ FromRow(tx[1]).status = "Validated"

\* No two rows of the table carry the same id.
UniqueIds(rows) == \A k, m \in 1..Len(rows) : rows[k].id = rows[m].id => k = m

\* C5: when create reaches a transaction whose id is already in the store,
\* or was written earlier by the same call, the call returns an error and
\* the store is unchanged (nothing the call wrote is kept, the stored rows
\* keep their fields); and no two rows ever carry the same id, whatever the
\* interleaving of the callers of create.
C5_DuplicateRejected ==
    [][ /\ UniqueIds(tx') /\ UniqueIds(wtx')
        /\ \A p \in Procs :
              (/\ pc[p] = "insert_tx"
               /\ Head(txs[p]) \in RowIds(wtx)
               /\ StepOf(p))
              => /\ ret'.op = "create" /\ ret'.val # "Ok"
                 /\ pc'[p] = "idle"
                 /\ tx' = tx /\ dep' = dep
                 /\ (writer = p => wtx' = tx /\ wdep' = dep /\ writer' = 0) ]_vars

\* A create that had inserted a transaction was rejected for a duplicate
\* id, and the transaction stored before is still the whole store.
C5_Witness ==
    /\ ret.op = "create" /\ ret.val = "Err UNIQUE tx" /\ ret.n = 1
    /\ Len(tx) = 1 /\ wtx = tx

\* C6: update of a transaction whose id is not in the store returns an
\* error.
C6_UpdateMissingIsError ==
    (ret.op = "update" /\ ret.n \notin RowIds(tx)) => ret.val # "Ok"

\* The id next(s) returns now, 0 for None.
NextId(s) ==
    LET r == NextOf(PoolReads, s) IN IF r = <<>> THEN 0 ELSE r[1].id

\* What next returns is the same before and after the step, for every status
\* (it is when the step leaves the table it reads alone).
SameNext == PoolReads' = PoolReads \/ \A s \in Status : NextId(s)' = NextId(s)

IsUpdate == \E id \in Ids, raw \in Raws, s \in Status, t \in Times : Update(id, raw, s, t)

IsCommit == \E p \in Procs : Commit(p)

\* C7 as claimed: what next(s) returns changes in no step but one of update,
\* so two calls with no update between them return the same.
C7_IdempotentRead ==
    [][ SameNext \/ IsUpdate ]_vars

\* C7 as amended: what next(s) returns changes in no step but one of update
\* or the commit of a create, so two calls with neither between them return
\* the same, whatever else happens between them.
C7_IdempotentReadNoCommit ==
    [][ SameNext \/ IsUpdate \/ IsCommit ]_vars

\* next returned a transaction while an open create had already written,
\* and not committed, one that next would have returned instead.
C7_Witness ==
    /\ ret.op = "next" /\ ret.row # <<>>
    /\ writer # 0
    /\ NextOf(wtx, ret.status) # ret.row

\* The edges of the lifecycle: Pending -> Validated -> Propagated, and
\* Failed from a status that is not terminal.
Lifecycle(a, b) ==
    \/ a = "Pending" /\ b = "Validated"
    \/ a = "Validated" /\ b = "Propagated"
    \/ a \in {"Pending", "Validated"} /\ b = "Failed"

\* C8: the stored status of a transaction changes only along an edge of the
\* lifecycle.
C8_LifecycleOnly ==
    [][ \A k \in 1..Len(tx), m \in 1..Len(tx') :
          (tx[k].id = tx'[m].id /\ tx'[m].status # tx[k].status)
          => Lifecycle(StatusParse(tx[k].status), StatusParse(tx'[m].status)) ]_vars

\* The ids caller p has inserted in its open transaction.
WrittenBy(p) == IF writer = p THEN RowIds(wtx) \ RowIds(tx) ELSE {}

\* C9: a dependency on a transaction written earlier by the same call is
\* accepted (the edge is written unless the storage layer fails), and a
\* commit keeps every row and edge the call wrote; a dependency on a
\* transaction that comes later in the batch, so is not written yet, makes
\* the call return an error and keep nothing.
C9_IntraBatch ==
    [][ \A p \in Procs :
          LET edge == <<Head(txs[p]), Head(deps[p])>> IN
          /\ (/\ pc[p] = "insert_dep"
              /\ edge[2] \in WrittenBy(p) \ {edge[1]}
              /\ edge \notin Range(wdep)
              /\ StepOf(p))
             => \/ pc'[p] # "idle" /\ edge \in Range(wdep') /\ wtx' = wtx
                \/ ret'.op = "create" /\ ret'.val = "Err storage"
          /\ (pc[p] = "commit" /\ writer = p /\ StepOf(p) /\ ret'.val = "Ok")
             => tx' = wtx /\ dep' = wdep
          /\ (/\ pc[p] = "insert_dep"
              /\ edge[2] \in Range(Tail(txs[p])) \ RowIds(wtx)
              /\ StepOf(p))
             => /\ ret'.op = "create" /\ ret'.val # "Ok"
                /\ tx' = tx /\ dep' = dep /\ wtx' = tx /\ wdep' = dep ]_vars

\* One create wrote two transactions and the edge from the second to the
\* first, and all of it is committed.
C9_Witness ==
    /\ ret.op = "create" /\ ret.val = "Ok" /\ ret.n = 2
    /\ Len(tx) = 2
    /\ \E e \in Range(dep) : e[1] # e[2]

\* C10: once main has started the two tasks, the pipeline task holds the
\* store the server task writes to, and every committed transaction can be
\* read through it.
C10_SharedStore ==
    serverStore # "none"
    => /\ pipelineStore = serverStore
       /\ RowIds(tx) \subseteq PipelineReads

\* C11: a record next returns is a committed row of the table, and none of
\* the rows an open create has written so far, however the call falls
\* between the statements of that create; and when a create fails and is
\* rolled back, the record the preceding next returned is still stored, so
\* it was none of the rows that are rolled back.
C11_CommitVisibility ==
    [][ /\ (ret'.op = "next" /\ ret'.row # <<>>)
           => /\ \E k \in 1..Len(tx') : FromRow(tx'[k]) = ret'.row[1]
              /\ \A p \in Procs : ret'.row[1].id \notin WrittenBy(p)'
        /\ (/\ ret.op = "next" /\ ret.row # <<>>
            /\ ret'.op = "create" /\ ret'.val # "Ok")
           => /\ ret.row[1].id \in RowIds(tx')
              /\ \A p \in Procs : ret.row[1].id \notin WrittenBy(p) ]_vars

\* next(Pending) ran between the two INSERT INTO tx of an open create, which
\* had written a pending transaction already, and returned None.
C11_Witness ==
    /\ ret.op = "next" /\ ret.status = "Pending" /\ ret.row = <<>>
    /\ writer # 0
    /\ pc[writer] = "insert_tx"
    /\ Len(txs[writer]) = 1
    /\ Len(wtx) = 1 /\ wtx[1].status = StatusToString("Pending")

\* C12: main returns the error of a task in the step in which that task's
\* future completes with it, whether or not the other task is still running,
\* and returns no error otherwise; it returns Ok exactly when both futures
\* have completed with Ok; the two tasks run from the same moment on.
C12_FailFast ==
    /\ \A t \in Tasks : task[t] = "Err" <=> exit = ErrOf(t)
    /\ exit = "Ok" <=> \A t \in Tasks : task[t] = "Ok"
    /\ (\E t \in Tasks : task[t] # "none") => \A t \in Tasks : task[t] # "none"

\* main returned the error of the server task while the pipeline task was
\* still running.
C12_Witness ==
    exit = "Err server" /\ task["pipeline"] = "running"

\* The ids reached from the ids S along the edges, S included.
RECURSIVE ReachedFrom(_, _)
ReachedFrom(edges, S) ==
    LET T == S \cup {e[2] : e \in {f \in Range(edges) : f[1] \in S}}
    IN IF T = S THEN S ELSE ReachedFrom(edges, T)

\* No path of one or more edges leads from an id back to itself.
Acyclic(edges) == \A e \in Range(edges) : e[1] \notin ReachedFrom(edges, {e[2]})

\* C13: no committed edge leads from a transaction to itself and the
\* committed edges form no cycle; so a create of a transaction that lists its
\* own id as a dependency keeps nothing.
C13_NoSelfLoopNoCycle ==
    /\ \A e \in Range(dep) : e[1] # e[2]
    /\ Acyclic(dep)

\* Every row's updated_at is no earlier than its created_at.
TimestampsOrdered(rows) ==
    \A k \in 1..Len(rows) :
       DecodeTime(rows[k].updated_at) >= DecodeTime(rows[k].created_at)

\* C14: every stored transaction has updated_at >= created_at, as inserted
\* by create and after every update; and the updated_at an update writes is
\* no earlier than the clock's last reading, which no earlier update's
\* updated_at exceeds.
C14_TimestampOrder ==
    [][ /\ TimestampsOrdered(tx')
        /\ ret'.op = "update"
           => \A k \in RowsOf(tx', ret'.n) : DecodeTime(tx'[k].updated_at) >= now ]_vars

\* C15: when several stored transactions of status s share the smallest
\* priority and the same created_at, next(s) returns the one with the
\* smallest id.
C15_TieBreakById ==
    (ret.op = "next" /\ ret.row # <<>>)
    => \A t \in WithStatus(tx, ret.status) :
          (t.priority = ret.row[1].priority /\ t.created_at = ret.row[1].created_at)
          => ret.row[1].id <= t.id

\* Transaction id is stored with status Pending.
PendingStored(id) ==
    \E k \in RowsOf(tx, id) : tx[k].status = StatusToString("Pending")

\* C16: with a single worker that keeps calling next(Pending) and moves each
\* transaction it gets to another status by update, and the create calls
\* being finitely many, every transaction stored as Pending is eventually
\* returned to the worker by next(Pending), and in the end next(Pending)
\* returns None and keeps doing so.
C16_DrainLiveness ==
    /\ \A id \in Ids :
          PendingStored(id) ~> (held # <<>> /\ held[1].id = id)
    /\ <>[](ret.op = "next" /\ ret.status = "Pending" /\ ret.row = <<>>)

\* The worker holds the second of two transactions after it has moved the
\* first one out of Pending.
C16_Witness ==
    /\ held # <<>>
    /\ Len(tx) = 2
    /\ \E k \in 1..2 : tx[k].id # held[1].id /\ tx[k].status # StatusToString("Pending")

\* C17: no step removes a committed transaction or changes its id, priority
\* or created_at, and no step removes a committed edge: the set of stored ids
\* only grows, through calls that succeed and calls that fail alike.
C17_NeverRemoved ==
    [][ /\ \A k \in 1..Len(tx) : \E m \in 1..Len(tx') :
              /\ tx'[m].id = tx[k].id
              /\ tx'[m].priority = tx[k].priority
              /\ tx'[m].created_at = tx[k].created_at
        /\ RowIds(tx) \subseteq RowIds(tx')
        /\ Range(dep) \subseteq Range(dep') ]_vars

\* A create that had written a transaction failed on an id already stored,
\* and the transactions and the edge stored before are still there.
C17_Witness ==
    /\ ret.op = "create" /\ ret.val = "Err UNIQUE tx" /\ ret.n = 1
    /\ dep # <<>>
    /\ tx # <<>>

\* C18: update leaves the table as long as it was and every row where it
\* was; it changes no id, priority or created_at, no row of another id and
\* no edge; the row of the id passed gets the status passed and the clock's
\* reading as updated_at.
C18_UpdateFrame ==
    [][ ret'.op = "update"
        => /\ Len(tx') = Len(tx)
           /\ \A k \in 1..Len(tx) :
                 /\ tx'[k].id = tx[k].id
                 /\ tx'[k].priority = tx[k].priority
                 /\ tx'[k].created_at = tx[k].created_at
                 /\ tx[k].id # ret'.n => tx'[k] = tx[k]
                 /\ tx[k].id = ret'.n
                    => /\ tx'[k].status = StatusToString(ret'.status)
                       /\ tx'[k].updated_at = EncodeTime(now')
           /\ dep' = dep /\ wdep' = wdep ]_vars

\* update moved one of two stored transactions to Validated; the other one
\* is Pending as before and the edge between them is stored.
C18_Witness ==
    /\ ret.op = "update" /\ ret.status = "Validated"
    /\ Len(tx) = 2
    /\ dep # <<>>
    /\ \E k, m \in 1..2 :
          /\ tx[k].id = ret.n /\ tx[k].status = StatusToString("Validated")
          /\ tx[m].id # ret.n /\ tx[m].status = StatusToString("Pending")

\* A step of next leaves both tables, committed and as the open write
\* transaction sees them, and the write lock as they were.
NextFrame == ret'.op = "next" => UNCHANGED storeVars

\* C19 as claimed: next changes no row and no edge, and what next(s) returns
\* changes in no step but one of update, so two callers with no update
\* between their calls get the same transaction.
C19_PureRead ==
    [][ NextFrame /\ (SameNext \/ IsUpdate) ]_vars

\* C19 as amended: next changes no row and no edge, and what next(s) returns
\* changes in no step but one of update or the commit of a create, so two
\* callers with neither between their calls get the same transaction.
C19_PureReadNoCommit ==
    [][ NextFrame /\ (SameNext \/ IsUpdate \/ IsCommit) ]_vars

\* next returned a transaction that is stored with the status asked for
\* still, and a second call would return it again.
C19_Witness ==
    /\ ret.op = "next" /\ ret.row # <<>>
    /\ writer = 0
    /\ NextOf(PoolReads, ret.status) = ret.row
    /\ \E k \in RowsOf(tx, ret.row[1].id) : tx[k].status = StatusToString(ret.status)

\* No row of the table of edges occurs twice.
UniqueEdges(edges) == \A k, m \in 1..Len(edges) : edges[k] = edges[m] => k = m

====
